---- MODULE Spec2Model ----
(***************************************************************************)
(* Kaleidoscope front end (src/main.cpp): lexer, recursive-descent parser  *)
(* with precedence climbing, code generation against the LLVM module, and  *)
(* the top-level driver loop.                                              *)
(*                                                                         *)
(* Characters are one-character strings, standard input is a sequence of   *)
(* characters, and EOF is the value "EOF".  Strings of the program         *)
(* (IdentifierStr, function and parameter names) are sequences of          *)
(* characters.  One step of the model is one iteration of MainLoop.        *)
(***************************************************************************)
EXTENDS Integers, Sequences, FiniteSets, TLC

VARIABLES
    input,          \* the characters of standard input
    src,            \* for an expression input: its primaries and operators
    stdinPos,       \* number of characters getchar() has delivered
    LastChar,       \* gettok's static LastChar
    IdentifierStr,  \* filled in if tok_identifier
    NumVal,         \* filled in if tok_number
    CurTok,         \* the parser's lookahead token
    TheModule,      \* the LLVM module: function list, symbol-table counter
    NamedValues,    \* the scope table of the function being lowered
    nextId,         \* identity of the next function object allocated
    pc,             \* "main", "loop" (head of MainLoop), "done", "aborted"
    hist            \* one record per form handled, oldest first

vars == <<input, src, stdinPos, LastChar, IdentifierStr, NumVal, CurTok,
          TheModule, NamedValues, nextId, pc, hist>>

----------------------------------------------------------------------------
(* Bounds of the model *)

\* forms (pieces of program text) concatenated into one input
MaxForms == 3
\* binary operators in one expression input
MaxOps == 3

----------------------------------------------------------------------------
(* Characters *)

EOF == "EOF"
Alpha == {"a", "b", "d", "e", "f", "g", "n", "r", "t", "x", "y"}
Digit == {"0", "1", "2", "3", "4", "5", "6", "7", "8", "9"}
Space == {" ", "\n", "\r", "\t"}

isspace(c) == c \in Space
isalpha(c) == c \in Alpha
isdigit(c) == c \in Digit
isalnum(c) == isalpha(c) \/ isdigit(c)

tok_eof == "tok_eof"
tok_def == "tok_def"
tok_extern == "tok_extern"
tok_identifier == "tok_identifier"
tok_number == "tok_number"
Tokens == {tok_eof, tok_def, tok_extern, tok_identifier, tok_number}

\* isascii(CurTok): the enum tokens are negative, characters are 0..127
isascii(t) == t \notin Tokens

----------------------------------------------------------------------------
(* Lexer.  The lexer and parser thread a record S: pos, LastChar,          *)
(* IdentifierStr, NumVal, CurTok, err (the diagnostics the parser wrote    *)
(* for this form) and ntok (the tokens read for this form).                *)

\* getchar(): the next character of input, EOF once it is exhausted
getchar(S) ==
    IF S.pos < Len(input)
    THEN [S EXCEPT !.pos = S.pos + 1, !.LastChar = input[S.pos + 1]]
    ELSE [S EXCEPT !.LastChar = EOF]

DigitVal(c) == CHOOSE n \in 0..9 : ToString(n) = c

\* strtod(NumStr): the longest prefix with at most one '.', as the decimal
\* value mant / 10^exp with no trailing zero in the fraction
RECURSIVE strtodScan(_, _, _, _, _)
strtodScan(str, i, mant, exp, dot) ==
    IF i > Len(str) \/ (str[i] = "." /\ dot)
    THEN [mant |-> mant, exp |-> exp]
    ELSE IF str[i] = "."
    THEN strtodScan(str, i + 1, mant, exp, TRUE)
    ELSE strtodScan(str, i + 1, mant * 10 + DigitVal(str[i]),
                    IF dot THEN exp + 1 ELSE exp, dot)

RECURSIVE Normalise(_)
Normalise(v) ==
    IF v.exp > 0 /\ v.mant % 10 = 0
    THEN Normalise([mant |-> v.mant \div 10, exp |-> v.exp - 1])
    ELSE v

strtod(str) == Normalise(strtodScan(str, 1, 0, 0, FALSE))

\* while (isspace(LastChar)) LastChar = getchar();
RECURSIVE SkipSpace(_)
SkipSpace(S) == IF isspace(S.LastChar) THEN SkipSpace(getchar(S)) ELSE S

\* while (isalnum(LastChar = getchar())) IdentifierStr += LastChar;
RECURSIVE ReadIdentifier(_)
ReadIdentifier(S) ==
    LET S1 == getchar(S)
    IN IF isalnum(S1.LastChar)
       THEN ReadIdentifier([S1 EXCEPT !.IdentifierStr = Append(@, S1.LastChar)])
       ELSE S1

\* do { NumStr += LastChar; LastChar = getchar(); } while (digit or '.')
RECURSIVE ReadNumber(_, _)
ReadNumber(S, NumStr) ==
    LET str == Append(NumStr, S.LastChar)
        S1 == getchar(S)
    IN IF isdigit(S1.LastChar) \/ S1.LastChar = "."
       THEN ReadNumber(S1, str)
       ELSE [S1 EXCEPT !.NumVal = strtod(str)]

\* do LastChar = getchar(); while (LastChar != EOF && != '\n' && != '\r')
RECURSIVE SkipComment(_)
SkipComment(S) ==
    LET S1 == getchar(S)
    IN IF S1.LastChar # EOF /\ S1.LastChar # "\n" /\ S1.LastChar # "\r"
       THEN SkipComment(S1)
       ELSE S1

\* gettok(): the next token and the lexer state after it
RECURSIVE gettok(_)
gettok(S) ==
    LET S0 == SkipSpace(S)
    IN IF isalpha(S0.LastChar)
       THEN LET S1 == ReadIdentifier([S0 EXCEPT !.IdentifierStr = <<S0.LastChar>>])
            IN IF S1.IdentifierStr = <<"d", "e", "f">>
               THEN <<tok_def, S1>>
               ELSE IF S1.IdentifierStr = <<"e", "x", "t", "e", "r", "n">>
               THEN <<tok_extern, S1>>
               ELSE <<tok_identifier, S1>>
       ELSE IF isdigit(S0.LastChar) \/ S0.LastChar = "."
       THEN <<tok_number, ReadNumber(S0, <<>>)>>
       ELSE LET S2 == IF S0.LastChar = "#" THEN SkipComment(S0) ELSE S0
            IN IF S0.LastChar = "#" /\ S2.LastChar # EOF
               THEN gettok(S2)
               ELSE IF S2.LastChar = EOF
               THEN <<tok_eof, S2>>
               ELSE <<S2.LastChar, getchar(S2)>>

\* getNextToken(): CurTok = gettok()
getNextToken(S) ==
    LET t == gettok(S) IN [t[2] EXCEPT !.CurTok = t[1], !.ntok = @ + 1]

----------------------------------------------------------------------------
(* AST.  Number: <<"Number", Val>>.  Variable: <<"Variable", Name>>.       *)
(* Binary: <<"Binary", Op, LHS, RHS>>.  Call: <<"Call", Callee, Args>>.    *)
(* A parse result is [ok, ast, S]; a failed parse has ast = "nullptr".     *)

NumberExprAST(Val) == <<"Number", Val>>
VariableExprAST(Name) == <<"Variable", Name>>
BinaryExprAST(Op, LHS, RHS) == <<"Binary", Op, LHS, RHS>>
CallExprAST(Callee, Args) == <<"Call", Callee, Args>>
PrototypeAST(Name, Args) == [Name |-> Name, Args |-> Args]
FunctionAST(Proto, Body) == [Proto |-> Proto, Body |-> Body]

Ok(ast, S) == [ok |-> TRUE, ast |-> ast, S |-> S]

\* LogError / LogErrorP / LogErrorV: write the diagnostic, return nullptr
LogError(S, Str) ==
    [ok |-> FALSE, ast |-> "nullptr", S |-> [S EXCEPT !.err = Append(@, Str)]]

\* return nullptr without a diagnostic of its own
Null(S) == [ok |-> FALSE, ast |-> "nullptr", S |-> S]

\* the table main() installs
BinopPrecedence(c) ==
    CASE c = "<" -> 10
      [] c = "+" -> 20
      [] c = "-" -> 20
      [] c = "*" -> 40
      [] OTHER -> 0

GetTokPrecedence(S) ==
    IF ~isascii(S.CurTok) THEN -1
    ELSE IF BinopPrecedence(S.CurTok) <= 0 THEN -1
    ELSE BinopPrecedence(S.CurTok)

RECURSIVE ParseExpression(_)
RECURSIVE ParsePrimary(_)
RECURSIVE ParseBinOpRHS(_, _, _)
RECURSIVE ParseArgs(_, _)

ParseNumberExpr(S) == Ok(NumberExprAST(S.NumVal), getNextToken(S))

\* ParseParenExpr after its expression: V is the expression's result
ParenClose(V) ==
    IF ~V.ok THEN Null(V.S)
    ELSE IF V.S.CurTok # ")" THEN LogError(V.S, "expected )")
    ELSE Ok(V.ast, getNextToken(V.S))

ParseParenExpr(S) == ParenClose(ParseExpression(getNextToken(S)))

\* the while (true) loop of ParseIdentifierExpr; a successful result holds
\* the argument list and stops at the ')'
ArgsNext(Arg, Args) ==
    IF ~Arg.ok THEN Null(Arg.S)
    ELSE IF Arg.S.CurTok = ")" THEN Ok(Append(Args, Arg.ast), Arg.S)
    ELSE IF Arg.S.CurTok # ","
    THEN LogError(Arg.S, "Expected ) or , in argument")
    ELSE ParseArgs(getNextToken(Arg.S), Append(Args, Arg.ast))

ParseArgs(S, Args) == ArgsNext(ParseExpression(S), Args)

\* ParseIdentifierExpr after the identifier (S1), the '(' (S2), the arguments (A)
CallClose(IdName, A) ==
    IF ~A.ok THEN A ELSE Ok(CallExprAST(IdName, A.ast), getNextToken(A.S))

CallArgs(IdName, S2) ==
    CallClose(IdName, IF S2.CurTok # ")" THEN ParseArgs(S2, <<>>) ELSE Ok(<<>>, S2))

IdentifierRest(IdName, S1) ==
    IF S1.CurTok # "(" THEN Ok(VariableExprAST(IdName), S1)
    ELSE CallArgs(IdName, getNextToken(S1))

ParseIdentifierExpr(S) == IdentifierRest(S.IdentifierStr, getNextToken(S))

ParsePrimary(S) ==
    CASE S.CurTok = tok_identifier -> ParseIdentifierExpr(S)
      [] S.CurTok = tok_number -> ParseNumberExpr(S)
      [] S.CurTok = "(" -> ParseParenExpr(S)
      [] OTHER -> LogError(S, "unknown tokenw hen expecting an exp")

\* one round of ParseBinOpRHS's loop after the right primary (BinOpRight)
\* and after the right operand is complete (BinOpCombine)
BinOpCombine(ExprPrec, BinOp, LHS, RHS) ==
    IF ~RHS.ok THEN Null(RHS.S)
    ELSE ParseBinOpRHS(ExprPrec, BinaryExprAST(BinOp, LHS, RHS.ast), RHS.S)

\* variant: the pending operator never gives its right operand away
NeverBindsTighter(TokPrec, NextPrec) == FALSE

\* if (TokPrec < NextPrec): the next operator takes RHS as its left operand
BindsTighter(TokPrec, NextPrec) == TokPrec < NextPrec

BinOpRight(ExprPrec, TokPrec, BinOp, LHS, RHS) ==
    IF ~RHS.ok THEN Null(RHS.S)
    ELSE BinOpCombine(ExprPrec, BinOp, LHS,
                      IF BindsTighter(TokPrec, GetTokPrecedence(RHS.S))
                      THEN ParseBinOpRHS(TokPrec + 1, RHS.ast, RHS.S)
                      ELSE RHS)

ParseBinOpRHS(ExprPrec, LHS, S) ==
    IF GetTokPrecedence(S) < ExprPrec THEN Ok(LHS, S)
    ELSE BinOpRight(ExprPrec, GetTokPrecedence(S), S.CurTok, LHS,
                    ParsePrimary(getNextToken(S)))

ExpressionRest(LHS) ==
    IF ~LHS.ok THEN Null(LHS.S) ELSE ParseBinOpRHS(0, LHS.ast, LHS.S)

ParseExpression(S) == ExpressionRest(ParsePrimary(S))

\* while (getNextToken() == tok_identifier) ArgNames.push_back(IdentifierStr);
RECURSIVE ReadArgNames(_, _)
ArgNamesNext(S1, ArgNames) ==
    IF S1.CurTok = tok_identifier
    THEN ReadArgNames(S1, Append(ArgNames, S1.IdentifierStr))
    ELSE Ok(ArgNames, S1)

ReadArgNames(S, ArgNames) == ArgNamesNext(getNextToken(S), ArgNames)

PrototypeClose(FnName, A) ==
    IF A.S.CurTok # ")" THEN LogError(A.S, "Expected ')' in prototype")
    ELSE Ok(PrototypeAST(FnName, A.ast), getNextToken(A.S))

PrototypeArgs(FnName, S1) ==
    IF S1.CurTok # "(" THEN LogError(S1, "Expected '(' in prototype")
    ELSE PrototypeClose(FnName, ReadArgNames(S1, <<>>))

ParsePrototype(S) ==
    IF S.CurTok # tok_identifier
    THEN LogError(S, "Expected function name in prototype")
    ELSE PrototypeArgs(S.IdentifierStr, getNextToken(S))

DefinitionOf(Proto, E) ==
    IF E.ok THEN Ok(FunctionAST(Proto, E.ast), E.S) ELSE Null(E.S)

DefinitionBody(Proto) ==
    IF ~Proto.ok THEN Null(Proto.S)
    ELSE DefinitionOf(Proto.ast, ParseExpression(Proto.S))

ParseDefinition(S) == DefinitionBody(ParsePrototype(getNextToken(S)))

ParseTopLevelExpr(S) ==
    DefinitionOf(PrototypeAST(<<>>, <<>>), ParseExpression(S))

ParseExtern(S) == ParsePrototype(getNextToken(S))

----------------------------------------------------------------------------
(* The LLVM module.  TheModule = [FunctionList, LastUnique]: the function  *)
(* objects in creation order and the counter its symbol table appends to   *)
(* make a name unique.  A function object is                               *)
(*   [id, name, decl, args, body]                                          *)
(* id: the object's identity; name: its name in the symbol table (<<>> for *)
(* an unnamed function, which the table does not hold); decl: the name     *)
(* Function::Create was asked for; args: the argument names; body: its     *)
(* basic blocks, each the sequence of Builder calls inserted into it.      *)
(* A Value is a tuple; the null pointer is <<"nullptr">>.                  *)
(*                                                                         *)
(* Code generation threads a record G: M (the module), NamedValues,        *)
(* nextId, ip (id of the function the Builder inserts into) and log, the   *)
(* events of this form in order: <<"enter", path>> when the codegen of an  *)
(* expression node starts (path: child indices from the body's root),      *)
(* <<"ok", path>> or <<"fail", path>> when it returns a Value or nullptr,  *)
(* <<"err", message>> and <<"emit", Builder call>>.                        *)

nullptr == <<"nullptr">>
IsNull(V) == V[1] = "nullptr"

Range(s) == {s[i] : i \in 1..Len(s)}

RECURSIVE Digits(_)
Digits(n) == IF n < 10 THEN <<ToString(n)>>
             ELSE Append(Digits(n \div 10), ToString(n % 10))

\* Module::getFunction(Name): the function the symbol table holds under Name
HasFunction(M, Name) ==
    Name # <<>> /\ \E i \in 1..Len(M.FunctionList) : M.FunctionList[i].name = Name

getFunction(M, Name) ==
    M.FunctionList[CHOOSE i \in 1..Len(M.FunctionList) : M.FunctionList[i].name = Name]

FunctionById(M, id) ==
    M.FunctionList[CHOOSE i \in 1..Len(M.FunctionList) : M.FunctionList[i].id = id]

Log(G, e) == [G EXCEPT !.log = Append(@, e)]

\* LogErrorV(Str)
LogErrorV(G, Str) == Log(G, <<"err", Str>>)

\* the place of the function with identity id in the function list
IndexOf(M, id) ==
    CHOOSE k \in 1..Len(M.FunctionList) : M.FunctionList[k].id = id

\* a Builder->Create... call: inserted at the insertion point
Emit(G, call) ==
    Log([G EXCEPT !.M.FunctionList[IndexOf(G.M, G.ip)].body[1] = Append(@, call)],
        <<"emit", call>>)

\* NamedValues[Name]: std::map::operator[] inserts a null entry for a new key
LookupNamedValue(G, Name) ==
    IF Name \in DOMAIN G.NamedValues THEN G
    ELSE [G EXCEPT !.NamedValues = (Name :> nullptr) @@ @]

\* VariableExprAST::codegen after the lookup (G1)
VariableValue(Name, G1) ==
    [val |-> G1.NamedValues[Name],
     G |-> IF IsNull(G1.NamedValues[Name])
           THEN LogErrorV(G1, "Unknown variable name") ELSE G1]

VariableCodegen(Name, G) == VariableValue(Name, LookupNamedValue(G, Name))

\* the switch (Op) of BinaryExprAST::codegen
BinaryOpCodegen(Op, L, R, G) ==
    CASE Op = "+" -> [val |-> <<"addtmp", L, R>>, G |-> Emit(G, <<"CreateFAdd", L, R>>)]
      [] Op = "-" -> [val |-> <<"subtmp", L, R>>, G |-> Emit(G, <<"CreateFSub", L, R>>)]
      [] Op = "*" -> [val |-> <<"multmp", L, R>>, G |-> Emit(G, <<"CreateFMul", L, R>>)]
      [] Op = "<" -> [val |-> <<"booltmp", <<"cmptmp", L, R>>>>,
                      G |-> Emit(Emit(G, <<"CreateFCmpULT", L, R>>),
                                 <<"CreateUIToFP", <<"cmptmp", L, R>>>>)]
      [] OTHER -> [val |-> nullptr, G |-> LogErrorV(G, "invalid binary operator")]

RECURSIVE ExprCodegen(_, _, _)
RECURSIVE ArgsCodegen(_, _, _, _, _)

\* if (!L || !R) return nullptr; switch (Op) ...
BinaryResult(Op, L, R) ==
    IF IsNull(L.val) \/ IsNull(R.val)
    THEN [val |-> nullptr, G |-> R.G]
    ELSE BinaryOpCodegen(Op, L.val, R.val, R.G)

\* variant: the right operand is not lowered once the left has failed
ShortCircuitRight(RHS, L, path) ==
    IF IsNull(L.val) THEN [val |-> nullptr, G |-> L.G]
    ELSE ExprCodegen(RHS, L.G, path)

\* Value *R = RHS->codegen(): lowered whatever L is
RightOperandCodegen(RHS, L, path) == ExprCodegen(RHS, L.G, path)

\* BinaryExprAST::codegen after L = LHS->codegen()
BinaryRight(ast, L, path) ==
    BinaryResult(ast[2], L, RightOperandCodegen(ast[4], L, Append(path, 2)))

BinaryCodegen(ast, G, path) ==
    BinaryRight(ast, ExprCodegen(ast[3], G, Append(path, 1)), path)

\* if (!ArgsV.back()) return nullptr;
ArgsLoopStops(V) == IsNull(V)

\* the for loop of CallExprAST::codegen after argument i is lowered (A)
ArgsNextArg(Args, i, ArgsV, A, path) ==
    IF ArgsLoopStops(A.val)
    THEN [ok |-> FALSE, ArgsV |-> Append(ArgsV, A.val), G |-> A.G]
    ELSE ArgsCodegen(Args, i + 1, Append(ArgsV, A.val), A.G, path)

\* the for loop of CallExprAST::codegen from argument i on: [ok, ArgsV, G]
ArgsCodegen(Args, i, ArgsV, G, path) ==
    IF i > Len(Args) THEN [ok |-> TRUE, ArgsV |-> ArgsV, G |-> G]
    ELSE ArgsNextArg(Args, i, ArgsV,
                     ExprCodegen(Args[i], G, Append(path, i)), path)

\* return Builder->CreateCall(CalleeF, ArgsV, "calltmp");
CallEmit(CalleeF, A) ==
    IF ~A.ok THEN [val |-> nullptr, G |-> A.G]
    ELSE [val |-> <<"calltmp", CalleeF.id, A.ArgsV>>,
          G |-> Emit(A.G, <<"CreateCall", CalleeF.id, A.ArgsV>>)]

\* CallExprAST::codegen once the callee is found
CallOf(CalleeF, ast, G, path) ==
    IF Len(CalleeF.args) # Len(ast[3])
    THEN [val |-> nullptr, G |-> LogErrorV(G, "Incorrect # arguments passed")]
    ELSE CallEmit(CalleeF, ArgsCodegen(ast[3], 1, <<>>, G, path))

CallCodegen(ast, G, path) ==
    IF ~HasFunction(G.M, ast[2])
    THEN [val |-> nullptr, G |-> LogErrorV(G, "Unknown function referenced")]
    ELSE CallOf(getFunction(G.M, ast[2]), ast, G, path)

\* the event that an expression node's codegen returned: nullptr or a Value
Returned(r, path) ==
    [r EXCEPT !.G = Log(@, <<IF IsNull(r.val) THEN "fail" ELSE "ok", path>>)]

\* ExprAST::codegen, by node kind; G0 is G with the node entered
NodeCodegen(ast, G0, path) ==
    CASE ast[1] = "Number" -> [val |-> <<"ConstantFP", ast[2]>>, G |-> G0]
      [] ast[1] = "Variable" -> VariableCodegen(ast[2], G0)
      [] ast[1] = "Binary" -> BinaryCodegen(ast, G0, path)
      [] ast[1] = "Call" -> CallCodegen(ast, G0, path)

ExprCodegen(ast, G, path) ==
    Returned(NodeCodegen(ast, Log(G, <<"enter", path>>), path), path)

----------------------------------------------------------------------------
(* Functions *)

\* Value::setName in a symbol table that holds the names `used`, whose
\* counter is k: the name with ++k appended (after a '.' for a function of
\* the module), again until the result is free
RECURSIVE UniqueName(_, _, _, _)
UniqueName(base, used, k, dot) ==
    IF (base \o dot \o Digits(k + 1)) \in used
    THEN UniqueName(base, used, k + 1, dot)
    ELSE [name |-> base \o dot \o Digits(k + 1), k |-> k + 1]

\* for (auto &Arg : F->args()) Arg.setName(Args[Idx++]);
RECURSIVE SetArgNames(_, _, _, _)
SetArgName(Args, i, names, u) ==
    SetArgNames(Args, i + 1, Append(names, u.name), u.k)

SetArgNames(Args, i, names, k) ==
    IF i > Len(Args) THEN names
    ELSE IF Args[i] \notin Range(names)
    THEN SetArgNames(Args, i + 1, Append(names, Args[i]), k)
    ELSE SetArgName(Args, i, names, UniqueName(Args[i], Range(names), k, <<>>))

FunctionNames(M) == {M.FunctionList[i].name : i \in 1..Len(M.FunctionList)}

\* the name Function::Create gives the new function: the one asked for, made
\* unique when the module's symbol table already holds it
CreatedName(M, Name) ==
    IF Name = <<>> \/ ~HasFunction(M, Name)
    THEN [name |-> Name, k |-> M.LastUnique]
    ELSE UniqueName(Name, FunctionNames(M), M.LastUnique, <<".">>)

\* Function::Create(FT, ExternalLinkage, Name, TheModule.get()) and the
\* naming of the arguments; u is the name the function gets
CreateFunction(Proto, G, u) ==
    [fn |-> G.nextId,
     G |-> [G EXCEPT !.M.FunctionList =
                         Append(@, [id |-> G.nextId, name |-> u.name,
                                    decl |-> Proto.Name,
                                    args |-> SetArgNames(Proto.Args, 1, <<>>, 0),
                                    body |-> <<>>]),
                     !.M.LastUnique = u.k,
                     !.nextId = @ + 1]]

\* PrototypeAST::codegen: always a new function object in TheModule
PrototypeCodegen(Proto, G) ==
    CreateFunction(Proto, G, CreatedName(G.M, Proto.Name))

\* the functions of M other than id whose blocks hold a call of id
Users(M, id) ==
    {M.FunctionList[i].id : i \in
        {j \in 1..Len(M.FunctionList) :
            /\ M.FunctionList[j].id # id
            /\ \E b \in 1..Len(M.FunctionList[j].body) :
                 \E c \in Range(M.FunctionList[j].body[b]) :
                     c[1] = "CreateCall" /\ c[2] = id}}

\* Function::eraseFromParent(): out of the function list and destroyed
eraseFromParent(M, id) ==
    [M EXCEPT !.FunctionList = SelectSeq(@, LAMBDA F : F.id # id)]

\* variant: no test for an existing body
NoRedefinitionTest(TheFunction) == FALSE

\* if (!TheFunction->empty()): the function already has a body
IsRedefinition(TheFunction) == TheFunction.body # <<>>

\* NamedValues.clear(); NamedValues[Arg.getName()] = &Arg for every argument
BindArguments(TheFunction) ==
    [n \in Range(TheFunction.args) |->
        <<"Argument", TheFunction.id,
          CHOOSE i \in 1..Len(TheFunction.args) : TheFunction.args[i] = n>>]

\* variant: the prototype is lowered without looking the name up
CreateAnyway(Proto, G) == PrototypeCodegen(Proto, G)

\* the function FunctionAST::codegen works on: the one the module holds
\* under the prototype's name, else a new one from Proto->codegen()
ResolveFunction(Proto, G) ==
    IF HasFunction(G.M, Proto.Name)
    THEN [fn |-> getFunction(G.M, Proto.Name).id, G |-> G]
    ELSE PrototypeCodegen(Proto, G)

\* variant: the function of a failed body is left in the module
KeepFailedFunction(M, id) == M

\* "Error reading body, remove function": TheFunction->eraseFromParent()
DiscardFailedFunction(M, id) == eraseFromParent(M, id)

\* FunctionAST::codegen after the body is lowered (RetVal); scope: the keys
\* of NamedValues right after the arguments were bound
FunctionFinish(fn, scope, RetVal) ==
    IF ~IsNull(RetVal.val)
    THEN [fn |-> fn, G |-> Emit(RetVal.G, <<"CreateRet", RetVal.val>>),
          bound |-> TRUE, scope |-> scope, ub |-> FALSE]
    ELSE [fn |-> 0,
          G |-> [RetVal.G EXCEPT !.M = DiscardFailedFunction(@, fn)],
          bound |-> TRUE, scope |-> scope,
          ub |-> Users(RetVal.G.M, fn) # {}]

\* BasicBlock::Create, SetInsertPoint, the binding of the arguments
EnterFunction(G, TheFunction) ==
    [G EXCEPT !.M.FunctionList[IndexOf(G.M, TheFunction.id)].body = <<<<>>>>,
              !.ip = TheFunction.id,
              !.NamedValues = BindArguments(TheFunction)]

\* if (Value *RetVal = Body->codegen()) ..., from the entered function (G1)
LowerBody(Fn, fn, G1) ==
    FunctionFinish(fn, DOMAIN G1.NamedValues, ExprCodegen(Fn.Body, G1, <<>>))

\* FunctionAST::codegen once TheFunction is resolved (R)
FunctionBody(Fn, R, TheFunction) ==
    IF IsRedefinition(TheFunction)
    THEN [fn |-> 0, G |-> LogErrorV(R.G, "Function cannot be redefined"),
          bound |-> FALSE, scope |-> {}, ub |-> FALSE]
    ELSE LowerBody(Fn, R.fn, EnterFunction(R.G, TheFunction))

FunctionResolved(Fn, R) == FunctionBody(Fn, R, FunctionById(R.G.M, R.fn))

\* FunctionAST::codegen: [fn, G, bound, scope, ub].  fn = 0 is nullptr;
\* bound: the arguments were bound; ub: a function that other functions
\* still call was destroyed.
FunctionCodegen(Fn, G) == FunctionResolved(Fn, ResolveFunction(Fn.Proto, G))

----------------------------------------------------------------------------
(* Top-level handlers.  Each yields [S, G, rec]: the lexer state and the   *)
(* code generator state after the form, and the record of the form:        *)
(*   kind, parsed, lowered, proto, body   the form and how far it got      *)
(*   perr, log        the parser's diagnostics, the code generator's events *)
(*   tokParsed, tokEnd    tokens read when the parser returned / at the end *)
(*   lexParsed, lexEnd    lexer position and lookahead at those two points  *)
(*   pre, post        TheModule before and after the form                  *)
(*   preId, postId    nextId before and after: the objects it created      *)
(*   bound, scope, scopeEnd   NamedValues' keys after binding / at return   *)
(*   ub               it destroyed a function that is still called         *)

NoProto == PrototypeAST(<<>>, <<>>)
NoBody == <<"none">>

LexView(S) == [pos |-> S.pos, LastChar |-> S.LastChar, CurTok |-> S.CurTok]

\* variant: a handler that skips no token after a parse failure
SkipNothing(S) == S

\* "Skip token for error recovery."
SkipTokenForErrorRecovery(S) == getNextToken(S)

FormRecord(kind, P, proto, body, C, S, G0) ==
    [kind |-> kind, parsed |-> P.ok, lowered |-> P.ok /\ C.fn # 0,
     proto |-> proto, body |-> body,
     perr |-> P.S.err, log |-> C.G.log,
     tokParsed |-> P.S.ntok, tokEnd |-> S.ntok,
     lexParsed |-> LexView(P.S), lexEnd |-> LexView(S),
     pre |-> G0.M, post |-> C.G.M,
     preId |-> G0.nextId, postId |-> C.G.nextId,
     bound |-> C.bound, scope |-> C.scope,
     scopeEnd |-> DOMAIN C.G.NamedValues, ub |-> C.ub]

\* the code generator's result when the parse failed: nothing was lowered
NotLowered(G) ==
    [fn |-> 0, G |-> G, bound |-> FALSE, scope |-> {}, ub |-> FALSE]

\* a handler's result: P the parse, C the lowering, S the lexer at the end
Outcome(kind, P, proto, body, C, S, G0) ==
    [S |-> S, G |-> C.G, rec |-> FormRecord(kind, P, proto, body, C, S, G0)]

\* the else branch of a handler: the parse failed
ParseFailed(kind, P, G) ==
    Outcome(kind, P, NoProto, NoBody, NotLowered(G),
            SkipTokenForErrorRecovery(P.S), G)

DefinitionParsed(P, G) ==
    IF P.ok
    THEN Outcome("def", P, P.ast.Proto, P.ast.Body, FunctionCodegen(P.ast, G), P.S, G)
    ELSE ParseFailed("def", P, G)

HandleDefinition(S, G) == DefinitionParsed(ParseDefinition(S), G)

\* ProtoAST->codegen() as a lowering result
ExternLowered(F) ==
    [fn |-> F.fn, G |-> F.G, bound |-> FALSE, scope |-> {}, ub |-> FALSE]

ExternParsed(P, G) ==
    IF P.ok
    THEN Outcome("extern", P, P.ast, NoBody,
                 ExternLowered(PrototypeCodegen(P.ast, G)), P.S, G)
    ELSE ParseFailed("extern", P, G)

HandleExtern(S, G) == ExternParsed(ParseExtern(S), G)

\* variant: the wrapper of a top-level expression is left in the module
KeepAnonymousExpression(M, id) == M

\* "remove the anonymous expression": FnIR->eraseFromParent()
RemoveAnonymousExpression(M, id) == eraseFromParent(M, id)

\* HandleTopLevelExpression after FnAST->codegen() (C0)
ExpressionLowered(C0) ==
    IF C0.fn # 0
    THEN [C0 EXCEPT !.G.M = RemoveAnonymousExpression(@, C0.fn)]
    ELSE C0

ExpressionParsed(P, G) ==
    IF P.ok
    THEN Outcome("expr", P, P.ast.Proto, P.ast.Body,
                 ExpressionLowered(FunctionCodegen(P.ast, G)), P.S, G)
    ELSE ParseFailed("expr", P, G)

HandleTopLevelExpression(S, G) == ExpressionParsed(ParseTopLevelExpr(S), G)

----------------------------------------------------------------------------
(* The driver *)

LexState ==
    [pos |-> stdinPos, LastChar |-> LastChar, IdentifierStr |-> IdentifierStr,
     NumVal |-> NumVal, CurTok |-> CurTok, err |-> <<>>, ntok |-> 0]

GenState ==
    [M |-> TheModule, NamedValues |-> NamedValues, nextId |-> nextId,
     ip |-> 0, log |-> <<>>]

SetLex(S) ==
    /\ stdinPos' = S.pos
    /\ LastChar' = S.LastChar
    /\ IdentifierStr' = S.IdentifierStr
    /\ NumVal' = S.NumVal
    /\ CurTok' = S.CurTok

SetGen(G) ==
    /\ TheModule' = G.M
    /\ NamedValues' = G.NamedValues
    /\ nextId' = G.nextId

\* a destroyed function that is still called: an LLVM built with assertions
\* aborts in ~Value, one built without goes on with the stale uses.  The
\* build is the same for the whole run.
Outcomes(rec) ==
    IF rec.ub /\ \A i \in 1..Len(hist) : ~hist[i].ub
    THEN {"loop", "aborted"}
    ELSE {"loop"}

Handled(out) ==
    /\ SetLex(out.S)
    /\ SetGen(out.G)
    /\ hist' = Append(hist, out.rec)
    /\ pc' \in Outcomes(out.rec)
    /\ UNCHANGED <<input, src>>

\* case tok_eof: return;
MainLoopEof ==
    /\ pc = "loop"
    /\ CurTok = tok_eof
    /\ pc' = "done"
    /\ UNCHANGED <<input, src, stdinPos, LastChar, IdentifierStr, NumVal,
                   CurTok, TheModule, NamedValues, nextId, hist>>

\* case ';': getNextToken();
MainLoopSemicolon ==
    /\ pc = "loop"
    /\ CurTok = ";"
    /\ SetLex(getNextToken(LexState))
    /\ UNCHANGED <<input, src, TheModule, NamedValues, nextId, pc, hist>>

MainLoopDefinition ==
    /\ pc = "loop"
    /\ CurTok = tok_def
    /\ Handled(HandleDefinition(LexState, GenState))

MainLoopExtern ==
    /\ pc = "loop"
    /\ CurTok = tok_extern
    /\ Handled(HandleExtern(LexState, GenState))

MainLoopExpression ==
    /\ pc = "loop"
    /\ CurTok \notin {tok_eof, ";", tok_def, tok_extern}
    /\ Handled(HandleTopLevelExpression(LexState, GenState))

----------------------------------------------------------------------------
(* Inputs: program texts *)

ExternF ==  \* extern f(a) (newline)
    <<"e", "x", "t", "e", "r", "n", " ", "f", "(", "a", ")", "\n">>
DefF ==  \* def f(a) a+1 (newline)
    <<"d", "e", "f", " ", "f", "(", "a", ")", " ", "a", "+", "1", "\n">>
CallF ==  \* f(2) (newline)
    <<"f", "(", "2", ")", "\n">>
DefFOtherParam ==  \* def f(b) b (newline)
    <<"d", "e", "f", " ", "f", "(", "b", ")", " ", "b", "\n">>
DefGCallsF ==  \* def g(b) f(b) (newline)
    <<"d", "e", "f", " ", "g", "(", "b", ")", " ", "f", "(", "b", ")", "\n">>
DefFBadBody ==  \* def f(a) y (newline)
    <<"d", "e", "f", " ", "f", "(", "a", ")", " ", "y", "\n">>
BadSum ==  \* x+y (newline)
    <<"x", "+", "y", "\n">>
CallFTwoArgs ==  \* f(1,2) (newline)
    <<"f", "(", "1", ",", "2", ")", "\n">>
ExternGThenBadCall ==  \* extern g(a b) g(x,y) (newline)
    <<"e", "x", "t", "e", "r", "n", " ", "g", "(", "a", " ", "b", ")", " ", "g", "(", "x", ",", "y", ")", "\n">>
SemiThenBadDef ==  \* ; def ( (newline)
    <<";", " ", "d", "e", "f", " ", "(", "\n">>
BadExternThenComment ==  \* extern ) # c (newline)
    <<"e", "x", "t", "e", "r", "n", " ", ")", " ", "#", " ", "c", "\n">>
BadVariable ==  \* x (newline)
    <<"x", "\n">>
BadExprThenNumber ==  \* ) 1.5 
    <<")", " ", "1", ".", "5", " ">>

Forms == {ExternF, DefF, CallF, DefFOtherParam, DefGCallsF, DefFBadBody, BadSum, CallFTwoArgs, ExternGThenBadCall, SemiThenBadDef, BadExternThenComment, BadVariable,
          BadExprThenNumber}

\* the forms fs[1], fs[2], ... one after the other
RECURSIVE Concat(_)
Concat(fs) == IF fs = <<>> THEN <<>> ELSE Head(fs) \o Concat(Tail(fs))

NoSrc == [prims |-> <<>>, ops |-> <<>>]

\* the state in which main() starts: nothing is read, TheModule is empty
Started(text) ==
    /\ input = text
    /\ stdinPos = 0 /\ LastChar = " " /\ IdentifierStr = <<>>
    /\ NumVal = [mant |-> 0, exp |-> 0] /\ CurTok = "unread"
    /\ TheModule = [FunctionList |-> <<>>, LastUnique |-> 0]
    /\ NamedValues = <<>>
    /\ nextId = 1
    /\ pc = "main"
    /\ hist = <<>>

Init ==
    /\ src = NoSrc
    /\ \E n \in 0..MaxForms : \E fs \in [1..n -> Forms] : Started(Concat(fs))

\* main(): getNextToken(); InitializeModuleAndManagers(); MainLoop();
MainStart ==
    /\ pc = "main"
    /\ SetLex(getNextToken(LexState))
    /\ pc' = "loop"
    /\ UNCHANGED <<input, src, TheModule, NamedValues, nextId, hist>>

Next ==
    \/ MainStart
    \/ MainLoopEof
    \/ MainLoopSemicolon
    \/ MainLoopDefinition
    \/ MainLoopExtern
    \/ MainLoopExpression

Spec == Init /\ [][Next]_vars

----------------------------------------------------------------------------
(* Inputs: one expression p0 op1 p1 ... opn pn.  A primary is its text and *)
(* the tree it stands for.                                                 *)

Operators == {"<", "+", "-", "*"}

Num(n) == NumberExprAST([mant |-> n, exp |-> 0])

Primaries ==
    {[text |-> <<"1">>, ast |-> Num(1)],
     [text |-> <<"x">>, ast |-> VariableExprAST(<<"x">>)],
     [text |-> <<"(", "2", "+", "3", ")">>,
      ast |-> BinaryExprAST("+", Num(2), Num(3))]}

\* the text of p0 op1 p1 ... from primary i on
RECURSIVE Render(_, _, _)
Render(ps, os, i) ==
    IF i = Len(ps) THEN ps[i].text
    ELSE ps[i].text \o <<os[i]>> \o Render(ps, os, i + 1)

InitExpr ==
    \E n \in 0..MaxOps :
        \E ps \in [1..(n + 1) -> Primaries] :
            \E os \in [1..n -> Operators] :
                /\ src = [prims |-> ps, ops |-> os]
                /\ Started(Render(ps, os, 1))

NextExpr ==
    \/ MainStart
    \/ MainLoopExpression
    \/ MainLoopEof

SpecExpr == InitExpr /\ [][NextExpr]_vars

----------------------------------------------------------------------------
(* Properties *)

Forms_(k) == {i \in 1..Len(hist) : hist[i].kind = k}
Records == 1..Len(hist)

\* the diagnostics of a form's lowering, in order
Errors(log) == SelectSeq(log, LAMBDA e : e[1] = "err")

Functions(M) == Range(M.FunctionList)

\* a form that the parser accepted and the code generator rejected
LoweringFailed(r) == r.parsed /\ ~r.lowered

\* C1 as stated: every form that fails, in parsing or in lowering, has the
\* driver read exactly one further token after the failure.
C1_OneTokenAfterAnyFailure ==
    \A i \in Records :
        (~hist[i].parsed \/ ~hist[i].lowered)
            => hist[i].tokEnd = hist[i].tokParsed + 1

\* C1 amended: a form whose parse fails has the driver read exactly one
\* further token; a form whose parse succeeds, its lowering failed or not,
\* has the driver read none (the lookahead stays where the parser left it).
C1_OneTokenAfterParseFailure ==
    \A i \in Records :
        /\ ~hist[i].parsed => hist[i].tokEnd = hist[i].tokParsed + 1
        /\ hist[i].parsed => /\ hist[i].tokEnd = hist[i].tokParsed
                             /\ hist[i].lexEnd = hist[i].lexParsed

C1_Witness ==
    /\ \E i \in Forms_("def") : ~hist[i].parsed
    /\ \E i \in Forms_("extern") : ~hist[i].parsed
    /\ \E i \in Forms_("expr") : LoweringFailed(hist[i])

\* C2: the driver stops only by the end-of-input return of MainLoop: once it
\* no longer loops, it has returned with the lookahead at end of input.
C2_StopsOnlyAtEndOfInput ==
    pc \notin {"main", "loop"} => pc = "done" /\ CurTok = tok_eof

\* C3: a function that has a body stays in the module as it is through every
\* later form, and a later def of its name fails with the redefinition error.
C3_DefinedFunctionIsKept ==
    /\ \A i \in Records :
         \A F \in Functions(hist[i].pre) :
            F.body # <<>> =>
               /\ F \in Functions(hist[i].post)
               /\ (hist[i].kind = "def" /\ hist[i].parsed
                      /\ hist[i].proto.Name = F.name)
                     => /\ ~hist[i].lowered
                        /\ Errors(hist[i].log) =
                              <<<<"err", "Function cannot be redefined">>>>
    /\ \A i \in Records :
         hist[i].post = IF i = Len(hist) THEN TheModule ELSE hist[i + 1].pre

C3_Witness ==
    \E i \in Forms_("def") :
        /\ hist[i].parsed
        /\ i < Len(hist)
        /\ \E F \in Functions(hist[i].pre) :
              F.body # <<>> /\ F.name = hist[i].proto.Name

\* the names of the variables an expression holds, FALSE-ing out calls
RECURSIVE OnlyParameters(_, _)
OnlyParameters(ast, P) ==
    CASE ast[1] = "Number" -> TRUE
      [] ast[1] = "Variable" -> ast[2] \in P
      [] ast[1] = "Binary" -> OnlyParameters(ast[3], P) /\ OnlyParameters(ast[4], P)
      [] ast[1] = "Call" -> FALSE

\* form i is an extern of a name the module does not hold, form i + 1 a def
\* of that name with the same parameters and a body over them alone
ForwardDeclared(i) ==
    /\ i + 1 <= Len(hist)
    /\ hist[i].kind = "extern" /\ hist[i].parsed
    /\ ~HasFunction(hist[i].pre, hist[i].proto.Name)
    /\ hist[i + 1].kind = "def" /\ hist[i + 1].parsed
    /\ hist[i + 1].proto = hist[i].proto
    /\ OnlyParameters(hist[i + 1].body, Range(hist[i].proto.Args))

\* form k is a bare call of name f with n arguments, all number literals
BareCall(k, f, n) ==
    /\ hist[k].kind = "expr" /\ hist[k].parsed
    /\ hist[k].body[1] = "Call"
    /\ hist[k].body[2] = f
    /\ Len(hist[k].body[3]) = n
    /\ \A a \in Range(hist[k].body[3]) : a[1] = "Number"

SemanticErrors ==
    {<<"err", "Unknown variable name">>,
     <<"err", "Unknown function referenced">>,
     <<"err", "Incorrect # arguments passed">>}

\* C5: a bare expression whose lowering fails reports the error of its
\* cause (unknown variable, unknown function, wrong number of arguments),
\* reads no token beyond the parser's lookahead and leaves the module as it
\* was, so the next form starts at its own first token with the same table.
C5_FailedExpressionLeavesNoTrace ==
    \A i \in Forms_("expr") :
        LoweringFailed(hist[i]) =>
            /\ Errors(hist[i].log) # <<>>
            /\ Range(Errors(hist[i].log)) \subseteq SemanticErrors
            /\ hist[i].body[1] = "Variable"
                 => Errors(hist[i].log) = <<<<"err", "Unknown variable name">>>>
            /\ (hist[i].body[1] = "Call" /\ ~HasFunction(hist[i].pre, hist[i].body[2]))
                 => Errors(hist[i].log) = <<<<"err", "Unknown function referenced">>>>
            /\ (/\ hist[i].body[1] = "Call"
                /\ HasFunction(hist[i].pre, hist[i].body[2])
                /\ Len(getFunction(hist[i].pre, hist[i].body[2]).args)
                      # Len(hist[i].body[3]))
                 => Errors(hist[i].log) = <<<<"err", "Incorrect # arguments passed">>>>
            /\ hist[i].lexEnd = hist[i].lexParsed
            /\ hist[i].tokEnd = hist[i].tokParsed
            /\ hist[i].post = hist[i].pre
            /\ i < Len(hist) => hist[i + 1].pre = hist[i].pre
            /\ i = Len(hist) => TheModule = hist[i].pre

C5_Witness ==
    /\ \E i \in Forms_("expr") :
          /\ LoweringFailed(hist[i]) /\ i < Len(hist)
          /\ hist[i].body[1] = "Call"
          /\ HasFunction(hist[i].pre, hist[i].body[2])
          /\ Errors(hist[i].log) = <<<<"err", "Incorrect # arguments passed">>>>
    /\ \E i \in Forms_("expr") :
          LoweringFailed(hist[i]) /\ hist[i].body[1] = "Variable"

\* The reference parser: operands and the operators between them are
\* reduced tier by tier, the tightest tier first, each tier from the left.
RemoveAt(seq, i) == SubSeq(seq, 1, i - 1) \o SubSeq(seq, i + 1, Len(seq))

RECURSIVE ReduceTier(_, _, _, _)
ReduceTier(items, ops, tier, i) ==
    IF i > Len(ops) THEN [items |-> items, ops |-> ops]
    ELSE IF ops[i] \in tier
    THEN ReduceTier(
             SubSeq(items, 1, i - 1)
                 \o <<BinaryExprAST(ops[i], items[i], items[i + 1])>>
                 \o SubSeq(items, i + 2, Len(items)),
             RemoveAt(ops, i), tier, i)
    ELSE ReduceTier(items, ops, tier, i + 1)

Tier(r, tier) == ReduceTier(r.items, r.ops, tier, 1)

ReferenceTree(ps, os) ==
    Tier(Tier(Tier([items |-> [i \in 1..Len(ps) |-> ps[i].ast], ops |-> os],
                   {"*"}), {"+", "-"}), {"<"}).items[1]

\* C6: for an input p0 op1 p1 ... opn pn, ParseExpression returns the tree
\* of the reference parser: equal precedence groups to the left, a tighter
\* operator takes the operand on its left, a parenthesised expression is
\* one primary.
C6_PrecedenceClimbingIsReference ==
    \A i \in Records :
        /\ i = 1
        /\ hist[i].kind = "expr"
        /\ hist[i].parsed
        /\ hist[i].body = ReferenceTree(src.prims, src.ops)

C6_Witness ==
    /\ hist # <<>>
    /\ Len(src.ops) >= 3
    /\ \E j \in 1..(Len(src.ops) - 1) :
          BinopPrecedence(src.ops[j]) < BinopPrecedence(src.ops[j + 1])
    /\ \E j \in 1..(Len(src.ops) - 1) :
          BinopPrecedence(src.ops[j]) = BinopPrecedence(src.ops[j + 1])
    /\ \E j \in 2..Len(src.prims) : Len(src.prims[j].text) > 1

\* the objects form i created
Created(i) == hist[i].preId..(hist[i].postId - 1)

\* C7: at the head of the loop every function of the module was created by
\* an extern or def form that lowered; no unnamed wrapper is there; a def of
\* a name the module did not hold, whose body failed, left nothing behind.
C7_OnlyLoweredFormsLeaveFunctions ==
    pc = "loop" =>
        /\ \A F \in Functions(TheModule) :
              /\ F.name # <<>>
              /\ \E i \in Records :
                    /\ hist[i].kind \in {"extern", "def"}
                    /\ hist[i].lowered
                    /\ F.id \in Created(i)
        /\ \A i \in Forms_("def") :
              (LoweringFailed(hist[i])
                  /\ ~HasFunction(hist[i].pre, hist[i].proto.Name))
                 => /\ ~HasFunction(hist[i].post, hist[i].proto.Name)
                    /\ hist[i].post = hist[i].pre

C7_Witness ==
    /\ pc = "loop"
    /\ TheModule.FunctionList # <<>>
    /\ \E i \in Forms_("expr") : hist[i].lowered
    /\ \E i \in Forms_("def") :
          /\ LoweringFailed(hist[i])
          /\ ~HasFunction(hist[i].pre, hist[i].proto.Name)
          /\ Created(i) # {}

\* C8: a prototype whose name the module already holds is lowered without a
\* new function object, and the module holds at most one function object
\* per declared name.
C8_OneFunctionPerDeclaredName ==
    /\ \A i \in Records :
          (hist[i].parsed /\ HasFunction(hist[i].pre, hist[i].proto.Name))
             => Created(i) = {}
    /\ \A F, H \in Functions(TheModule) : F.decl = H.decl => F = H

\* C9: from the binding of the parameters to the return of
\* FunctionAST::codegen the keys of the scope table are exactly the
\* parameter names of the definition's prototype.
C9_ScopeIsTheParameters ==
    \A i \in Records :
        hist[i].bound =>
            /\ hist[i].scope = Range(hist[i].proto.Args)
            /\ hist[i].scopeEnd = Range(hist[i].proto.Args)

\* the node of an expression at a path
RECURSIVE Subterm(_, _)
Subterm(ast, path) ==
    IF path = <<>> THEN ast
    ELSE IF ast[1] = "Binary" THEN Subterm(ast[2 + Head(path)], Tail(path))
    ELSE Subterm(ast[3][Head(path)], Tail(path))

Parent(path) == SubSeq(path, 1, Len(path) - 1)
Child(path) == path[Len(path)]

\* event k of form i is the failed return of a child of a node of kind K
ChildFailed(i, k, K) ==
    /\ hist[i].log[k][1] = "fail"
    /\ hist[i].log[k][2] # <<>>
    /\ Subterm(hist[i].body, Parent(hist[i].log[k][2]))[1] = K

\* C10 as stated: after the first failed subexpression of a form nothing
\* more is lowered: no node is entered, no diagnostic, no emission.
C10_NothingLoweredAfterFailure ==
    \A i \in Records :
        \A k \in 1..Len(hist[i].log) :
            hist[i].log[k][1] = "fail" =>
                \A m \in (k + 1)..Len(hist[i].log) : hist[i].log[m][1] = "fail"

\* C10 amended: after a failed call argument no later argument is lowered
\* and the call fails at once; a binary expression lowers its right
\* operand also when its left operand has failed, and fails, without an
\* instruction of its own, as soon as the right operand has returned.
C10_ArgumentsStopBinaryGoesOn ==
    \A i \in Records :
        \A k \in 1..Len(hist[i].log) :
            LET e == hist[i].log[k]
                log == hist[i].log
            IN /\ ChildFailed(i, k, "Call") =>
                    /\ log[k + 1] = <<"fail", Parent(e[2])>>
                    /\ \A m \in 1..Len(log) :
                          (log[m][1] = "enter" /\ Len(log[m][2]) = Len(e[2])
                              /\ Parent(log[m][2]) = Parent(e[2]))
                             => Child(log[m][2]) <= Child(e[2])
               /\ (ChildFailed(i, k, "Binary") /\ Child(e[2]) = 1) =>
                    /\ log[k + 1] = <<"enter", Append(Parent(e[2]), 2)>>
                    /\ \E m \in (k + 2)..(Len(log) - 1) :
                          /\ log[m] \in {<<"ok", Append(Parent(e[2]), 2)>>,
                                         <<"fail", Append(Parent(e[2]), 2)>>}
                          /\ log[m + 1] = <<"fail", Parent(e[2])>>
               /\ (ChildFailed(i, k, "Binary") /\ Child(e[2]) = 2) =>
                    log[k + 1] = <<"fail", Parent(e[2])>>

C10_Witness ==
    /\ \E i \in Records : \E k \in 1..Len(hist[i].log) :
          /\ ChildFailed(i, k, "Call")
          /\ Child(hist[i].log[k][2])
                < Len(Subterm(hist[i].body, Parent(hist[i].log[k][2]))[3])
    /\ \E i \in Records : \E k \in 1..Len(hist[i].log) :
          ChildFailed(i, k, "Binary") /\ Child(hist[i].log[k][2]) = 1

\* C11: a def form whose lowering fails (redefinition, or a body that fails
\* to lower) leaves the module's function table as it was before the form;
\* a name that was declared before the failed def is still declared after.
C11_FailedDefLeavesFunctionTable ==
    \A i \in Forms_("def") :
        LoweringFailed(hist[i]) =>
            /\ hist[i].post.FunctionList = hist[i].pre.FunctionList
            /\ HasFunction(hist[i].pre, hist[i].proto.Name)
                  => HasFunction(hist[i].post, hist[i].proto.Name)

====
